---------------------------- MODULE Spec2Model ----------------------------
(* A model of the elevation-encoder log reader (eldata.py): the buffered   *)
(* iterator ElData.__next__, its synchronisation machine _sync_push /      *)
(* _sync_replace, and the file scans _find_sync, get_last_sync,            *)
(* get_first_sync, defrag; and of the programs around it: the latest       *)
(* zenith lookup (cur_tail.py), the TCP sampler (elread.py), the zenith    *)
(* server and client (el_server.py, el_client.py), the file locator and    *)
(* span assembler (utils.py) and the UIO reader (el_read_zynq2.py).        *)
(*                                                                         *)
(* Representation.                                                         *)
(*  - A packet is a record [k, t, d]: kind, stamp, payload, as parsebytes  *)
(*    returns them.  A file is the sequence of its complete packets.       *)
(*  - sync_id is a Python integer of up to 40 bits.  TLC's integers have   *)
(*    32 bits, so an id is kept as two limbs <<hi, lo>> that stand for     *)
(*    hi * 2^24 + lo with 0 <= lo < 2^24; -1 is <<-1, 2^24 - 1>>.          *)
(*  - The file being iterated is revealed block by block while it is read: *)
(*    `file' holds the packets that exist up to the last revealed block,   *)
(*    and the end of the file is where the reader meets it.                *)
(*                                                                         *)
(* Specifications.                                                         *)
(*  - Spec: one file iterated with preinfo and postinfo absent or given.   *)
(*  - SpecCat: a file iterated with preinfo = True and postinfo = True     *)
(*    between a previous and a next file, as utils.elpaths2el does.        *)
(*  - SpecFind: get_last_sync, get_first_sync and defrag called on files.  *)
(*  - SpecZenith: get_latest_zenith called on a tree of log files.         *)
(*  - SpecSampler: two ElRead processes with the same lock file.           *)
(*  - SpecServer: ElServer.run and two clients, with fair scheduling.      *)
(*  - SpecLocate: dt2elpath called on a listing of log files.              *)
(*  - SpecSpan: elpaths2el over a span of log files.                       *)
(*  - SpecUio: el_EncReader's producer thread and main, with fair          *)
(*    scheduling of both threads.                                          *)
EXTENDS Integers, Sequences, FiniteSets, TLC

VARIABLES
    file,         \* packets of the file being iterated (revealed so far)
    nblk,         \* number of blocks revealed
    tick,         \* stamp counter of the writer of the file
    gap,          \* stamp advance per DATA packet
    lag,          \* stamp of a SYNC/UART packet relative to the last DATA
    fd_pos,       \* self._fd position, in packets after the header
    buffer,       \* self._buffer: samples <<stamp, data, sync_id, sync_offset>>
    fin,          \* self._fin
    sync_info,    \* self._sync_info
    sync_count,   \* self._sync_count
    skip,         \* self._skip
    sync_stamp,   \* self._sync_stamp
    sync_id,      \* self._sync_id
    sync_offset,  \* self._sync_offset
    postinfo,     \* self._postinfo
    preinfo,      \* the constructor's preinfo argument
    init,         \* self._init
    sstamp,       \* self.__sstamp
    out,          \* the samples the iterator has returned, in order
    status,       \* "iter", "stopped" (StopIteration) or "raised"
    err,          \* the exception raised, "" if none
    hist,         \* per packet read: the machine after it (history)
    prev,         \* packets of the file get_previous_path names
    nxt,          \* packets of the file get_next_path names
    ret,          \* the last call of a file scan and what it returned
    catalog,      \* the log files of the directory tree, in filename order
    lock,         \* the lock file: 0 when absent, else the pid written last
    spc,          \* per sampler process, its position in ElRead
    locked,       \* per sampler process, ElRead._locked
    connected,    \* per sampler process, ElRead._connected
    rest,         \* per sampler process, the bytes get_write still takes
    upstream,     \* per sampler process, the device's end of the connection
    eof,          \* per sampler process, a recv of get_write returned b''
    nfile,        \* per sampler process, the files get_write completed
    sock,         \* per sampler process, the socket self._client
    srv,          \* the position of ElServer.run
    conn,         \* the client of clientsock, 0 when there is none
    backlog,      \* the connected clients the server has not accepted yet
    inbox,        \* per client, the requests sent and not yet received
    outbox,       \* per client, the responses sent and not yet received
    cpc,          \* per client, the position of ElClient
    sent,         \* per client, the requests it has sent
    got,          \* per client, the responses it has received
    listing,      \* the names of the log files, << day, time >>, in order
    running,      \* el_EncReader._running
    fifo,         \* el_EncReader.fifo: the records in the queue
    pl,           \* the records in the hardware FIFO
    made,         \* the records the hardware has produced so far
    tpc,          \* the position of the producer thread (_loop)
    mpc           \* the position of the main thread (main)

vars == << file, nblk, tick, gap, lag, fd_pos, buffer, fin, sync_info,
           sync_count, skip, sync_stamp, sync_id, sync_offset, postinfo,
           preinfo, init, sstamp, out, status, err, hist, prev, nxt, ret,
           catalog, lock, spc, locked, connected, rest, upstream, eof,
           nfile, sock, srv, conn, backlog, inbox, outbox, cpc, sent, got,
           listing, running, fifo, pl, made, tpc, mpc >>

\* The TCP sampler (src/elread.py).
Sampler ==
    << lock, spc, locked, connected, rest, upstream, eof, nfile, sock >>

\* The zenith server and its clients (src/el_server.py, src/el_client.py).
Server == << srv, conn, backlog, inbox, outbox, cpc, sent, got >>

\* The state of the collaborators of the stream: the file tree, the sampler,
\* the server.
\* The UIO reader (src/el_read_zynq2.py).
Uio == << running, fifo, pl, made, tpc, mpc >>

Others == << catalog, Sampler, Server, listing, Uio >>

-----------------------------------------------------------------------------
(* Bounds of the model *)

\* Number of blocks a file is built of.
MaxBlocks == 5

\* BUFFER_LENGTH of eldata.py:17 is 128; the model runs the same code with a
\* short buffer so that files of a few packets fill it.
BUFFER_LENGTH == 3

\* Stamp of an explicitly supplied postinfo record (later than the file).
PostStamp == 90

\* SEEK_LENGTH of eldata.py:18 is 1000; the scans run with a short window
\* so that files of a few packets are longer than it.
SEEK_LENGTH == 8

\* Number of DATA packets a scanned file may begin with.
MaxLead == 3

-----------------------------------------------------------------------------
(* Program constants *)

PACKET_LENGTH == 12

UART_HEADER == 85     \* 0x55

Limb == 2 ^ 24

-----------------------------------------------------------------------------
(* Integers of more than 32 bits *)

\* The integer n, -Limb <= n < Limb, as limbs.
IdOf(n) == << n \div Limb, n % Limb >>

\* id + (data << 8*n) for a shift of n bytes, 0 <= n <= 4.
IdAddShift(id, data, n) ==
    IF n < 3
    THEN LET lo == id[2] + data * (256 ^ n)
         IN  << id[1] + (lo \div Limb), lo % Limb >>
    ELSE << id[1] + data * (256 ^ (n - 3)), id[2] >>

-----------------------------------------------------------------------------
(* Packets and files *)

Pkt(k, t, d) == [k |-> k, t |-> t, d |-> d]

\* The payloads the writer puts at packet index p (0-based): every DATA and
\* every SYNC payload of a file is distinct, a body byte is one of 1..5.
DataAt(p) == 1000 + p
OffsetAt(p) == 10 + p
ByteAt(p) == (p % 5) + 1

\* The blocks a file is made of: one DATA, one SYNC, the header byte 0x55,
\* one body byte, and the six UARTs of a sequence (0x55 and five body bytes).
Blocks == {"D", "S", "H", "B", "X"}

RECURSIVE BodyRun(_, _, _)
BodyRun(p, t, n) ==
    IF n = 0 THEN << >>
    ELSE << Pkt("UART", t, ByteAt(p)) >> \o BodyRun(p + 1, t, n - 1)

\* The packets of block b written at packet index p when the counter is tk.
BlockPackets(b, p, tk, g, l) ==
    CASE b = "D" -> << Pkt("DATA", tk + g, DataAt(p)) >>
      [] b = "S" -> << Pkt("SYNC", tk + l, OffsetAt(p)) >>
      [] b = "H" -> << Pkt("UART", tk + l, UART_HEADER) >>
      [] b = "B" -> BodyRun(p, tk + l, 1)
      [] b = "X" -> << Pkt("UART", tk + l, UART_HEADER) >>
                    \o BodyRun(p + 1, tk + l, 5)
      [] b = "M" -> << Pkt("BAD", tk + l, 0) >>


-----------------------------------------------------------------------------
(* The synchronisation machine of ElData *)

\* A SyncRecord as the code keeps it in _sync_info: <<stamp, id, offset>>.
Sentinel == << -1, IdOf(-1), 0 >>

\* A buffered sample [stamp, data, sync_id, sync_offset].
Sample(t, d, id, off) == << t, d, id, off >>

\* ElData._sstamp: the cached stamp of the first DATA packet, else a scan
\* of the file from packet 0 (ElEOF when the scan meets the end).
FirstData(f) ==
    LET ds == {i \in 1..Len(f) : f[i].k = "DATA"}
    IN  IF ds = {} THEN << >>
        ELSE << f[CHOOSE i \in ds : \A j \in ds : i <= j].t >>

sstamp_get(sst, f) == IF sst # << >> THEN sst ELSE FirstData(f)

\* _sync_replace with the test of the first DATA stamp the other way round.
sync_replace_newer(buf, ss, id, off, sst, f) ==
    IF Len(buf) = 0
    THEN [err |-> "IndexError", buf |-> buf]
    ELSE
      LET start == buf[1][1]
          first == sstamp_get(sst, f)
      IN
      IF ss < start /\ first = << >>
      THEN [err |-> "ElEOF", buf |-> buf]
      ELSE IF ss < start /\ first[1] > ss
      THEN [err |-> "Buffer too short", buf |-> buf]
      ELSE
        LET index == IF ss < start THEN 0 ELSE ss - start + 1
        IN  [err |-> "",
             buf |-> [i \in 1..Len(buf) |->
                        IF i - 1 >= index /\ buf[i][1] > ss
                        THEN Sample(buf[i][1], buf[i][2], id, off)
                        ELSE buf[i]]]

\* ElData._sync_replace on buffer buf with the current record (ss, id, off).
\* The result is the new buffer, or the exception raised.
sync_replace(buf, ss, id, off, sst, f) ==
    IF Len(buf) = 0
    THEN [err |-> "IndexError", buf |-> buf]
    ELSE
      LET start == buf[1][1]
          first == sstamp_get(sst, f)
      IN
      IF ss < start /\ first = << >>
      THEN [err |-> "ElEOF", buf |-> buf]
      ELSE IF ss < start /\ first[1] <= ss
      THEN [err |-> "Buffer too short", buf |-> buf]
      ELSE
        LET index == IF ss < start THEN 0 ELSE ss - start + 1
        IN  [err |-> "",
             buf |-> [i \in 1..Len(buf) |->
                        IF i - 1 >= index /\ buf[i][1] > ss
                        THEN Sample(buf[i][1], buf[i][2], id, off)
                        ELSE buf[i]]]

\* The fields of the machine that _sync_push reads and writes.
Machine == [buffer |-> buffer, sync_info |-> sync_info,
            sync_count |-> sync_count, skip |-> skip,
            sync_stamp |-> sync_stamp, sync_id |-> sync_id,
            sync_offset |-> sync_offset, err |-> ""]

\* ElData._sync_push for a SYNC packet.
sync_push_sync(m, p) ==
    IF m.sync_count # 6 /\ m.sync_count > 0 /\ ~m.skip
    THEN m                                   \* 'Try to recover': ignored
    ELSE [m EXCEPT !.sync_stamp = p.t, !.sync_count = 0,
                   !.sync_id = IdOf(0), !.sync_offset = p.d,
                   !.skip = FALSE]

\* sync_push_uart with the body bytes shifted one byte too far.
sync_push_uart_shift(m, p, sst, f) ==
    LET m1 == IF m.sync_count = 0
              THEN [m EXCEPT !.skip = (p.d # UART_HEADER) \/ m.skip]
              ELSE IF 0 < m.sync_count /\ m.sync_count < 6
              THEN [m EXCEPT !.sync_id =
                        IdAddShift(m.sync_id, p.d, m.sync_count)]
              ELSE m                         \* 'UART too long'
        m2 == [m1 EXCEPT !.sync_count = m.sync_count + 1]
    IN
    IF m2.sync_count = 6 /\ ~m2.skip
    THEN LET r == IF Len(m2.buffer) > 0
                  THEN sync_replace(m2.buffer, m2.sync_stamp, m2.sync_id,
                                    m2.sync_offset, sst, f)
                  ELSE [err |-> "", buf |-> m2.buffer]
         IN  IF r.err # ""
             THEN [m2 EXCEPT !.err = r.err]
             ELSE [m2 EXCEPT !.buffer = r.buf,
                             !.sync_info = Append(m2.sync_info,
                                 << m2.sync_stamp, m2.sync_id,
                                    m2.sync_offset >>),
                             !.skip = TRUE]
    ELSE m2

\* ElData._sync_push for a UART packet.
sync_push_uart(m, p, sst, f) ==
    LET m1 == IF m.sync_count = 0
              THEN [m EXCEPT !.skip = (p.d # UART_HEADER) \/ m.skip]
              ELSE IF 0 < m.sync_count /\ m.sync_count < 6
              THEN [m EXCEPT !.sync_id =
                        IdAddShift(m.sync_id, p.d, m.sync_count - 1)]
              ELSE m                         \* 'UART too long'
        m2 == [m1 EXCEPT !.sync_count = m.sync_count + 1]
    IN
    IF m2.sync_count = 6 /\ ~m2.skip
    THEN LET r == IF Len(m2.buffer) > 0
                  THEN sync_replace(m2.buffer, m2.sync_stamp, m2.sync_id,
                                    m2.sync_offset, sst, f)
                  ELSE [err |-> "", buf |-> m2.buffer]
         IN  IF r.err # ""
             THEN [m2 EXCEPT !.err = r.err]
             ELSE [m2 EXCEPT !.buffer = r.buf,
                             !.sync_info = Append(m2.sync_info,
                                 << m2.sync_stamp, m2.sync_id,
                                    m2.sync_offset >>),
                             !.skip = TRUE]
    ELSE m2

\* push_data with the sample put at the head of the buffer.
push_data_front(m, p) ==
    LET last == m.sync_info[Len(m.sync_info)]
    IN  [m EXCEPT !.buffer = << Sample(p.t, p.d, last[2], last[3]) >>
                             \o m.buffer]

\* ElData.__next__, the buffering of a DATA packet.
push_data(m, p) ==
    LET last == m.sync_info[Len(m.sync_info)]
    IN  [m EXCEPT !.buffer = Append(m.buffer,
                                    Sample(p.t, p.d, last[2], last[3]))]

\* The output step with the test `len(self._buffer) <= BUFFER_LENGTH`.
Emits_over(buf) == ~(Len(buf) <= BUFFER_LENGTH)

\* ElData.__next__, the output step: a sample leaves the buffer when the
\* buffer holds BUFFER_LENGTH samples.
Emits(buf) == ~(Len(buf) < BUFFER_LENGTH)

-----------------------------------------------------------------------------
(* The file scans of ElData: _find_sync, get_last_sync, get_first_sync,    *)
(* _uart_fragment, defrag.  A file f is the sequence of its complete       *)
(* packets, so self.length is Len(f) and get_data(i) raises ElEOF exactly  *)
(* when i >= Len(f).  Packet indices are 0-based as in the code.           *)

\* The locals of _find_sync before its loop.
find_start == [info |-> << >>, count |-> 0, in |-> FALSE, id |-> IdOf(0),
               stamp |-> 0, off |-> 0, err |-> ""]

\* find_step with the body bytes shifted one byte too far.
find_step_shift(s, p) ==
    CASE p.k = "SYNC" ->
           [s EXCEPT !.in = TRUE, !.stamp = p.t, !.off = p.d,
                     !.id = IdOf(0), !.count = 0]
      [] p.k = "UART" ->
           IF s.count = 6 THEN [s EXCEPT !.err = "UART too long"]
           ELSE [s EXCEPT !.id = IF s.count # 0 /\ s.count < 5
                                 THEN IdAddShift(s.id, p.d, s.count)
                                 ELSE s.id,
                          !.count = s.count + 1]
      [] OTHER ->
           IF s.count = 6
           THEN [s EXCEPT !.info = IF s.in
                                   THEN Append(s.info,
                                               << s.stamp, s.id, s.off >>)
                                   ELSE s.info,
                          !.id = IdOf(0), !.in = FALSE]
           ELSE s

\* One pass of the loop of _find_sync over packet p.
find_step(s, p) ==
    CASE p.k = "SYNC" ->
           [s EXCEPT !.in = TRUE, !.stamp = p.t, !.off = p.d,
                     !.id = IdOf(0), !.count = 0]
      [] p.k = "UART" ->
           IF s.count = 6 THEN [s EXCEPT !.err = "UART too long"]
           ELSE [s EXCEPT !.id = IF s.count # 0
                                 THEN IdAddShift(s.id, p.d, s.count - 1)
                                 ELSE s.id,
                          !.count = s.count + 1]
      [] OTHER ->
           IF s.count = 6
           THEN [s EXCEPT !.info = IF s.in
                                   THEN Append(s.info,
                                               << s.stamp, s.id, s.off >>)
                                   ELSE s.info,
                          !.id = IdOf(0), !.in = FALSE]
           ELSE s

\* The loop of _find_sync: for _i in range(i, en), left at the end of the
\* file or by an exception.
RECURSIVE find_scan(_, _, _, _)
find_scan(f, i, en, s) ==
    IF i >= en \/ i >= Len(f) \/ s.err # "" THEN s
    ELSE find_scan(f, i + 1, en, find_step(s, f[i + 1]))

\* ElData._find_sync(cur_st, cur_en): the records found and uart_count, or
\* the exception raised.
find_sync(f, cur_st, cur_en) ==
    IF cur_st >= Len(f)
    THEN [err |-> "ElEOF", info |-> << >>, count |-> 0]
    ELSE LET s == find_scan(f, cur_st, cur_en, find_start)
         IN  [err |-> s.err,
              info |-> IF s.in
                       THEN Append(s.info, << s.stamp, s.id, s.off >>)
                       ELSE s.info,
              count |-> s.count]

\* What a scan returns: a record and a UART count, or an exception.
Raised(e) == [err |-> e, rec |-> Sentinel, count |-> 0]
Returned(r, n) == [err |-> "", rec |-> r, count |-> n]

Max(a, b) == IF a > b THEN a ELSE b

\* ElData.get_last_sync(seek_from, seek_length, accept_residue).
RECURSIVE get_last_sync(_, _, _, _)
get_last_sync(f, seek_from, seek_length, accept_residue) ==
    IF seek_from > Len(f) THEN Raised("ElEOF")
    ELSE
      LET start == Max(Len(f) - seek_length - seek_from, 0)
          r == find_sync(f, start, Len(f) - seek_from)
          n == Len(r.info)
      IN
      IF r.err # "" THEN Raised(r.err)
      ELSE IF n = 0
      THEN get_last_sync(f, seek_from + seek_length - 7, seek_length * 10,
                         accept_residue)
      ELSE IF r.count # 0
      THEN IF accept_residue THEN Returned(r.info[n], r.count)
           ELSE IF n > 1 THEN Returned(r.info[n - 1], r.count)
           ELSE get_last_sync(f, seek_from + seek_length - 7,
                              seek_length * 10, accept_residue)
      ELSE Returned(r.info[n], r.count)

\* ElData.get_first_sync(seek_from, seek_length).
RECURSIVE get_first_sync(_, _, _)
get_first_sync(f, seek_from, seek_length) ==
    LET r == find_sync(f, seek_from, seek_from + seek_length)
    IN  IF r.err # "" THEN Raised(r.err)
        ELSE IF Len(r.info) = 0
        THEN get_first_sync(f, seek_from + seek_length - 7,
                            seek_length * 10)
        ELSE Returned(r.info[1], 0)

\* ElData._uart_fragment: the payloads of the UART packets before the first
\* SYNC of the file; ElEOF when the file holds no SYNC.
uart_fragment(f) ==
    LET ss == {i \in 1..Len(f) : f[i].k = "SYNC"}
    IN  IF ss = {} THEN [err |-> "ElEOF", uarts |-> << >>]
        ELSE LET s == CHOOSE i \in ss : \A j \in ss : i <= j
                 RECURSIVE upto(_)
                 upto(i) == IF i = 0 THEN << >>
                            ELSE IF f[i].k = "UART"
                            THEN Append(upto(i - 1), f[i].d)
                            ELSE upto(i - 1)
             IN  [err |-> "", uarts |-> upto(s - 1)]

\* The loop of defrag from fragment index i (1-based) on.
RECURSIVE defrag_sum(_, _, _, _)
defrag_sum(u, i, id, uart_count) ==
    IF i > Len(u) THEN id
    ELSE IF uart_count + (i - 1) = 0
    THEN IF u[i] # UART_HEADER THEN IdOf(-1)
         ELSE defrag_sum(u, i + 1, id, uart_count)
    ELSE defrag_sum(u, i + 1,
                    IdAddShift(id, u[i], (i - 1) + uart_count - 1),
                    uart_count)

\* ElData.defrag(sync_id, uart_count) on file f: the id returned, or the
\* exception raised.
defrag(f, id, uart_count) ==
    LET u == uart_fragment(f)
    IN  IF u.err # "" THEN [err |-> u.err, id |-> IdOf(-1)]
        ELSE IF Len(u.uarts) + uart_count # 6
        THEN [err |-> "", id |-> IdOf(-1)]
        ELSE [err |-> "", id |-> defrag_sum(u.uarts, 1, id, uart_count)]

-----------------------------------------------------------------------------
(* Construction: ElData.__init__ *)

NoInfo == [mode |-> "none", rec |-> Sentinel, count |-> 6]
Given(rec, n) == [mode |-> "given", rec |-> rec, count |-> n]

\* The sync fields after __init__ for an absent (False) or explicitly
\* supplied preinfo.
construct(pre) ==
    LET rec == IF pre.mode = "none" THEN Sentinel ELSE pre.rec
        cnt == IF pre.mode = "none" THEN 6 ELSE pre.count
    IN  [sync_stamp |-> rec[1], sync_id |-> rec[2], sync_offset |-> rec[3],
         sync_count |-> cnt,
         sync_info |-> IF cnt # 6 THEN << Sentinel >> ELSE << rec >>]

\* The preinfo / postinfo arguments the single-file specification draws.
PreSet == {NoInfo, Given(<< 0, IdOf(9), 3 >>, 6)}
PostSet == {NoInfo, Given(<< PostStamp, IdOf(8), 4 >>, 0)}

\* The writers' stamp schemes <<gap, lag>>: one DATA per tick with SYNC and
\* UART stamped with the tick of the last DATA, or every packet stamped
\* strictly later than the packets before a DATA.
Schemes == {<< 1, 0 >>, << 2, 1 >>}

StreamInit(pre, post, sch) ==
    LET c == construct(pre)
    IN  /\ file = << >> /\ nblk = 0
        /\ gap = sch[1] /\ lag = sch[2]
        /\ fd_pos = 0
        /\ buffer = << >>
        /\ fin = FALSE
        /\ sync_info = c.sync_info
        /\ sync_count = c.sync_count
        /\ skip = FALSE
        /\ sync_stamp = c.sync_stamp
        /\ sync_id = c.sync_id
        /\ sync_offset = c.sync_offset
        /\ postinfo = post
        /\ preinfo = pre
        /\ init = FALSE
        /\ sstamp = << >>
        /\ out = << >>
        /\ hist = << >>

\* No file scan has been called.
NoCall == [op |-> "none"]

\* The collaborators of the stream are not in use.
DiskIdle == catalog = << >>

NamesIdle == listing = << >>

\* The sampler processes.
Procs == {1, 2}

SamplerIdle ==
    /\ lock = 0
    /\ spc = [p \in Procs |-> "new"]
    /\ locked = [p \in Procs |-> FALSE]
    /\ connected = [p \in Procs |-> FALSE]
    /\ rest = [p \in Procs |-> 0]
    /\ upstream = [p \in Procs |-> "open"]
    /\ eof = [p \in Procs |-> FALSE]
    /\ nfile = [p \in Procs |-> 0]
    /\ sock = [p \in Procs |-> "new"]

\* The clients of the zenith server.
Clients == {1, 2}

ServerIdle ==
    /\ srv = "accept"
    /\ conn = 0
    /\ backlog = << >>
    /\ inbox = [c \in Clients |-> << >>]
    /\ outbox = [c \in Clients |-> << >>]
    /\ cpc = [c \in Clients |-> "new"]
    /\ sent = [c \in Clients |-> 0]
    /\ got = [c \in Clients |-> << >>]

UioIdle ==
    /\ running = FALSE
    /\ fifo = 0
    /\ pl = 0
    /\ made = 0
    /\ tpc = "off"
    /\ mpc = "start"

OthersIdle ==
    DiskIdle /\ SamplerIdle /\ ServerIdle /\ NamesIdle /\ UioIdle

\* One file, read with preinfo and postinfo absent or explicitly supplied.
Init == \E pre \in PreSet, post \in PostSet, sch \in Schemes :
            /\ StreamInit(pre, post, sch)
            /\ status = "iter" /\ err = ""
            /\ tick = 0
            /\ prev = << >> /\ nxt = << >> /\ ret = NoCall
            /\ OthersIdle

-----------------------------------------------------------------------------
(* Iteration: ElData.__next__, one action per packet read *)

\* The blocks of the file being iterated: with preinfo = True the file is
\* two blocks shorter, because the previous file is part of the state.
BlockBudget == IF preinfo.mode = "auto" THEN MaxBlocks - 2 ELSE MaxBlocks

\* The UARTs that complete the sequence the previous file ends with.
RestRun(k, t) ==
    IF k = 0 THEN << Pkt("UART", t, UART_HEADER) >> \o BodyRun(1, t, 5)
    ELSE BodyRun(0, t, 6 - k)

\* The files that agree with what has been read and hold a next packet:
\* the file as revealed, or the file with one more block.
Extensions ==
    IF fd_pos < Len(file) THEN {file}
    ELSE IF nblk < BlockBudget
    THEN {file \o BlockPackets(b, Len(file), tick, gap, lag) : b \in Blocks}
         \cup (IF preinfo.mode = "auto" /\ nblk = 0 /\ preinfo.count < 6
               THEN {file \o RestRun(preinfo.count, tick + lag)}
               ELSE {})
    ELSE {}

Reveal(f) ==
    /\ file' = f
    /\ nblk' = IF f = file THEN nblk ELSE nblk + 1
    /\ tick' = IF f # file /\ f[Len(f)].k = "DATA" THEN f[Len(f)].t ELSE tick

\* The machine m after the read of packet p becomes the state; a sample
\* leaves the buffer when the buffer is full.
Store(m, p) ==
    /\ sync_info' = m.sync_info
    /\ sync_count' = m.sync_count
    /\ skip' = m.skip
    /\ sync_stamp' = m.sync_stamp
    /\ sync_id' = m.sync_id
    /\ sync_offset' = m.sync_offset
    /\ err' = m.err
    /\ status' = IF m.err # "" THEN "raised" ELSE "iter"
    /\ IF m.err = "" /\ Emits(m.buffer)
       THEN buffer' = Tail(m.buffer) /\ out' = Append(out, Head(m.buffer))
       ELSE buffer' = m.buffer /\ out' = out
    /\ hist' = Append(hist, [count |-> m.sync_count, skip |-> m.skip,
                             ninfo |-> Len(m.sync_info),
                             last |-> m.sync_info[Len(m.sync_info)],
                             tag |-> IF p.k = "DATA"
                                     THEN m.buffer[Len(m.buffer)]
                                     ELSE << >>,
                             err |-> m.err])

Reading == status = "iter" /\ ~fin

NextData ==
    /\ Reading
    /\ \E f \in Extensions :
         LET p == f[fd_pos + 1] IN
         /\ p.k = "DATA"
         /\ Reveal(f)
         /\ fd_pos' = fd_pos + 1
         /\ Store(push_data(Machine, p), p)
         /\ init' = TRUE
         /\ sstamp' = IF init THEN sstamp ELSE << p.t >>
    /\ UNCHANGED << gap, lag, fin, postinfo, preinfo, prev, nxt, ret >>
    /\ UNCHANGED Others

NextSync ==
    /\ Reading
    /\ \E f \in Extensions :
         LET p == f[fd_pos + 1] IN
         /\ p.k = "SYNC"
         /\ Reveal(f)
         /\ fd_pos' = fd_pos + 1
         /\ Store(sync_push_sync(Machine, p), p)
    /\ UNCHANGED << gap, lag, fin, postinfo, preinfo, init, sstamp, prev,
                    nxt, ret >>
    /\ UNCHANGED Others

NextUart ==
    /\ Reading
    /\ \E f \in Extensions :
         LET p == f[fd_pos + 1] IN
         /\ p.k = "UART"
         /\ Reveal(f)
         /\ fd_pos' = fd_pos + 1
         /\ Store(sync_push_uart(Machine, p, sstamp, f), p)
    /\ UNCHANGED << gap, lag, fin, postinfo, preinfo, init, sstamp, prev,
                    nxt, ret >>
    /\ UNCHANGED Others

\* ElData._read at the end of the packets: the bytes read(PACKET_LENGTH)
\* returns when n bytes are left.
read_len(n) == IF n < PACKET_LENGTH THEN n ELSE PACKET_LENGTH

\* The lengths of a trailing partial packet.
Tails == {0, 5}

\* ElData.__next__, the finalization on ElEOF with an absent or an
\* explicitly supplied postinfo: the record that is applied to the buffer.
final_record(m, post) ==
    IF post.mode = "none"
    THEN IF Len(m.buffer) = 0
         THEN [m EXCEPT !.err = "IndexError"]
         ELSE [m EXCEPT !.sync_stamp = m.buffer[1][1],
                        !.sync_id = IdOf(-1), !.sync_offset = 0]
    ELSE [m EXCEPT !.sync_stamp = post.rec[1],
                   !.sync_id = post.rec[2], !.sync_offset = post.rec[3]]

\* ElData.__next__, the _sync_replace of the finalization, for a stream on
\* file f whose first DATA stamp is cached as sst.
finalize_on(m, sst, f) ==
    IF m.err # "" THEN m
    ELSE LET r == sync_replace(m.buffer, m.sync_stamp, m.sync_id,
                               m.sync_offset, sst, f)
         IN  [m EXCEPT !.buffer = r.buf, !.err = r.err]

finalize(m) == finalize_on(m, sstamp, file)

\* The machine becomes the state at the end of the file, and the recursive
\* __next__ that ends the handler returns the head of the buffer, or raises
\* StopIteration on an empty one.
StoreFinal(m) ==
    /\ fin' = TRUE
    /\ sync_stamp' = m.sync_stamp
    /\ sync_id' = m.sync_id
    /\ sync_offset' = m.sync_offset
    /\ err' = m.err
    /\ status' = IF m.err # "" THEN "raised"
                 ELSE IF Len(m.buffer) = 0 THEN "stopped" ELSE "iter"
    /\ IF m.err = "" /\ Len(m.buffer) # 0
       THEN buffer' = Tail(m.buffer) /\ out' = Append(out, Head(m.buffer))
       ELSE buffer' = m.buffer /\ out' = out

NextEOF ==
    /\ Reading
    /\ fd_pos = Len(file)
    /\ postinfo.mode # "auto"
    /\ \E n \in Tails : read_len(n) # PACKET_LENGTH
    /\ StoreFinal(finalize(final_record(Machine, postinfo)))
    /\ UNCHANGED << file, nblk, tick, gap, lag, fd_pos, sync_info,
                    sync_count, skip, postinfo, preinfo, init, sstamp,
                    hist, prev, nxt, ret >>
    /\ UNCHANGED Others

\* __next__ after the end of the file: the buffer is handed out.
NextFlush ==
    /\ status = "iter" /\ fin
    /\ Len(buffer) # 0
    /\ out' = Append(out, Head(buffer))
    /\ buffer' = Tail(buffer)
    /\ UNCHANGED << file, nblk, tick, gap, lag, fd_pos, fin, sync_info,
                    sync_count, skip, sync_stamp, sync_id, sync_offset,
                    postinfo, preinfo, init, sstamp, status, err, hist,
                    prev, nxt, ret >>
    /\ UNCHANGED Others

NextStop ==
    /\ status = "iter" /\ fin
    /\ Len(buffer) = 0
    /\ status' = "stopped"
    /\ UNCHANGED << file, nblk, tick, gap, lag, fd_pos, buffer, fin,
                    sync_info, sync_count, skip, sync_stamp, sync_id,
                    sync_offset, postinfo, preinfo, init, sstamp, out, err,
                    hist, prev, nxt, ret >>
    /\ UNCHANGED Others

Next ==
    \/ NextData
    \/ NextSync
    \/ NextUart
    \/ NextEOF
    \/ NextFlush
    \/ NextStop

Spec == Init /\ [][Next]_vars

-----------------------------------------------------------------------------
(* Files written in advance: the neighbours of the file being iterated and *)
(* the files the scans are applied to                                      *)

\* The packets of the blocks of shape, appended to f.
RECURSIVE BuildFile(_, _, _, _, _)
BuildFile(shape, f, tk, g, l) ==
    IF shape = << >> THEN f
    ELSE LET ps == BlockPackets(Head(shape), Len(f), tk, g, l)
             last == ps[Len(ps)]
         IN  BuildFile(Tail(shape), f \o ps,
                       IF last.k = "DATA" THEN last.t ELSE tk, g, l)

\* File f as file number n of the catalog: DATA and SYNC payloads of
\* different files are different.
Numbered(f, n) ==
    [i \in 1..Len(f) |-> IF f[i].k = "UART" THEN f[i]
                         ELSE [f[i] EXCEPT !.d = @ + 1000 * n]]

\* The stamp counter of the writer after file f.
EndTick(f) ==
    LET ds == {i \in 1..Len(f) : f[i].k = "DATA"}
    IN  IF ds = {} THEN 0
        ELSE f[CHOOSE i \in ds : \A j \in ds : j <= i].t

Rep(b, n) == [i \in 1..n |-> b]

\* The first k UARTs of a sequence, with the header 0x55 or a body byte in
\* its place.
Frag(k, good) ==
    IF k = 0 THEN << >>
    ELSE (IF good THEN << "H" >> ELSE << "B" >>) \o Rep("B", k - 1)

\* A SYNC and the UARTs that follow it, or nothing.
SeqShapes == { << >> }
             \cup { << "S" >> \o Frag(k, g) : k \in 0..7, g \in BOOLEAN }

-----------------------------------------------------------------------------
(* A catalog of three files: the file is iterated with preinfo = True and  *)
(* postinfo = True, as utils.elpaths2el constructs it                      *)

\* The previous file: empty, without a SYNC, ending with a sequence of k
\* UARTs, or with a complete sequence followed by DATA.
PrevShapes == { << >>, << "D" >>, << "D", "S", "X", "D" >> }
              \cup { << "D", "S" >> \o Frag(k, g) :
                        k \in 0..7, g \in BOOLEAN }

PrevFiles(sch) ==
    { Numbered(BuildFile(sh, << >>, 0, sch[1], sch[2]), 1) :
         sh \in PrevShapes }

\* The next file: empty, without a SYNC, or with a complete sequence after
\* a DATA packet or after one more UART.
NextShapes == { << >>, << "D" >>, << "D", "S", "X", "D" >>,
                << "B", "D", "S", "X", "D" >> }

NextFiles ==
    { Numbered(BuildFile(sh, << >>, tick, gap, lag), 2) :
         sh \in NextShapes }

Auto == [mode |-> "auto", rec |-> Sentinel, count |-> 0]

\* __init__ with preinfo = True: the preinfo is what get_last_sync returns
\* on the previous file, and its exception is the constructor's.
InitCat ==
    \E sch \in Schemes : \E a \in PrevFiles(sch) :
        LET r == get_last_sync(a, 0, SEEK_LENGTH, TRUE)
        IN  /\ StreamInit([mode |-> "auto", rec |-> r.rec,
                           count |-> IF r.err = "" THEN r.count ELSE 6],
                          Auto, sch)
            /\ status = IF r.err = "" THEN "iter" ELSE "raised"
            /\ err = r.err
            /\ tick = EndTick(a)
            /\ prev = a /\ nxt = << >> /\ ret = NoCall
            /\ OthersIdle

\* ElData.__next__, the finalization on ElEOF with postinfo = True: the
\* record comes from defrag or get_first_sync of the next file c.
final_auto(m, c) ==
    IF ~m.skip
    THEN LET r == defrag(c, m.sync_id, m.sync_count)
         IN  IF r.err # "" THEN [m EXCEPT !.err = r.err]
             ELSE [m EXCEPT !.sync_id = r.id]
    ELSE LET r == get_first_sync(c, 0, SEEK_LENGTH)
         IN  IF r.err # "" THEN [m EXCEPT !.err = r.err]
             ELSE [m EXCEPT !.sync_stamp = r.rec[1],
                            !.sync_id = r.rec[2],
                            !.sync_offset = r.rec[3]]

NextEOFAuto ==
    /\ Reading
    /\ fd_pos = Len(file)
    /\ postinfo.mode = "auto"
    /\ \E n \in Tails : read_len(n) # PACKET_LENGTH
    /\ \E c \in NextFiles :
         /\ nxt' = c
         /\ StoreFinal(finalize(final_auto(Machine, c)))
    /\ UNCHANGED << file, nblk, tick, gap, lag, fd_pos, sync_info,
                    sync_count, skip, postinfo, preinfo, init, sstamp,
                    hist, prev, ret >>
    /\ UNCHANGED Others

NextCat ==
    \/ NextData
    \/ NextSync
    \/ NextUart
    \/ NextEOFAuto
    \/ NextFlush
    \/ NextStop

SpecCat == InitCat /\ [][NextCat]_vars

-----------------------------------------------------------------------------
(* The file scans applied to files: a file of DATA packets and up to two   *)
(* sequences, cut in two at any packet; get_last_sync is called on the     *)
(* first part, get_first_sync and defrag on the second.                    *)

FindShapes ==
    { Rep("D", n) \o s1 \o Rep("D", m) \o s2 \o Rep("D", e) :
        n \in 0..MaxLead, s1 \in SeqShapes, m \in 0..1,
        s2 \in SeqShapes, e \in 0..1 }

FindFiles == { BuildFile(sh, << >>, 0, 1, 0) : sh \in FindShapes }

InitFind ==
    \E f \in FindFiles : \E c \in 0..Len(f) :
        /\ StreamInit(NoInfo, NoInfo, << 1, 0 >>)
        /\ status = "iter" /\ err = ""
        /\ tick = 0
        /\ prev = SubSeq(f, 1, c)
        /\ nxt = SubSeq(f, c + 1, Len(f))
        /\ ret = NoCall
        /\ OthersIdle

Stream == << file, nblk, tick, gap, lag, fd_pos, buffer, fin, sync_info,
             sync_count, skip, sync_stamp, sync_id, sync_offset, postinfo,
             preinfo, init, sstamp, out, status, err, hist >>

CallLastSync ==
    /\ ret = NoCall
    /\ \E acc \in BOOLEAN :
         ret' = [op |-> "get_last_sync", acc |-> acc, from |-> 0,
                 res |-> get_last_sync(prev, 0, SEEK_LENGTH, acc)]
    /\ UNCHANGED << Stream, prev, nxt >>
    /\ UNCHANGED Others

CallFirstSync ==
    /\ ret = NoCall
    /\ \E from \in 0..2 :
         ret' = [op |-> "get_first_sync", acc |-> FALSE, from |-> from,
                 res |-> get_first_sync(nxt, from, SEEK_LENGTH)]
    /\ UNCHANGED << Stream, prev, nxt >>
    /\ UNCHANGED Others

\* get_last_sync(accept_residue=True) on the first part, then defrag on the
\* second with the id and the UART count it returned.
CallDefrag ==
    /\ ret = NoCall
    /\ LET l == get_last_sync(prev, 0, SEEK_LENGTH, TRUE)
       IN  ret' = [op |-> "defrag", acc |-> TRUE, from |-> 0,
                   res |-> IF l.err # ""
                           THEN [err |-> l.err, id |-> IdOf(-1)]
                           ELSE defrag(nxt, l.rec[2], l.count)]
    /\ UNCHANGED << Stream, prev, nxt >>
    /\ UNCHANGED Others

NextFind ==
    \/ CallLastSync
    \/ CallFirstSync
    \/ CallDefrag

SpecFind == InitFind /\ [][NextFind]_vars

-----------------------------------------------------------------------------
(* Vocabulary of the properties *)

\* Packet indices are 1-based here: file[i] is packet i - 1 of the code.
Read == 1..fd_pos

IsData(i) == file[i].k = "DATA"
IsSync(i) == file[i].k = "SYNC"
IsUart(i) == file[i].k = "UART"

DataIn(S) == {i \in S : IsData(i)}
SyncIn(S) == {i \in S : IsSync(i)}
UartIn(S) == {i \in S : IsUart(i)}

\* The samples the DATA packets of the packets read stand for, in file order.
RECURSIVE DataOf(_, _)
DataOf(f, n) ==
    IF n = 0 THEN << >>
    ELSE IF f[n].k = "DATA"
         THEN Append(DataOf(f, n - 1), << f[n].t, f[n].d >>)
         ELSE DataOf(f, n - 1)

StampData(seq) == [i \in 1..Len(seq) |-> << seq[i][1], seq[i][2] >>]

\* The position in the output of the sample of DATA packet i.
Ord(i) == Cardinality(DataIn(1..i))

\* The machine before packet i was read.
CountBefore(i) == IF i = 1 THEN construct(preinfo).sync_count
                  ELSE hist[i - 1].count
InfoBefore(i) == IF i = 1 THEN 1 ELSE hist[i - 1].ninfo
LastBefore(i) == IF i = 1 THEN construct(preinfo).sync_info[1]
                 ELSE hist[i - 1].last

\* The iteration has ended with StopIteration.
Completed == status = "stopped"

\* The id that five body bytes spell: b1 + b2*2^8 + b3*2^16 + b4*2^24 +
\* b5*2^32, in limbs.
Packed(b) == << b[4] + b[5] * 256, b[1] + b[2] * 256 + b[3] * 65536 >>

\* The k-th UART (k >= 1) after packet i among the packets read, 0 if none.
UartAfter(i, k) ==
    LET us == {j \in (i + 1)..fd_pos :
                 IsUart(j) /\ Cardinality(UartIn((i + 1)..j)) = k}
    IN  IF us = {} THEN 0 ELSE CHOOSE j \in us : TRUE

\* SYNC i is followed by six UARTs with no SYNC up to the sixth.
SixAfter(i) ==
    /\ IsSync(i)
    /\ UartAfter(i, 6) # 0
    /\ SyncIn((i + 1)..UartAfter(i, 6)) = {}

BodyAfter(i) == [k \in 1..5 |-> file[UartAfter(i, k + 1)].d]

-----------------------------------------------------------------------------
(* C1 *)

IsPrefix(a, b) == Len(a) <= Len(b) /\ \A i \in 1..Len(a) : a[i] = b[i]

\* C1: iterating a file that holds a DATA packet either fails with 'Buffer
\* too short' or returns the DATA packets, each once, in file order, with
\* their stamp and payload, and nothing else, and then stops: what has been
\* returned is always a prefix of the DATA packets read, and all of them
\* once StopIteration is raised.
C1_Iteration ==
    /\ (status = "raised" /\ err # "Buffer too short")
          => (fin /\ DataIn(Read) = {})
    /\ IsPrefix(StampData(out), DataOf(file, fd_pos))
    /\ (Completed /\ DataIn(Read) # {})
          => StampData(out) = DataOf(file, fd_pos)

\* A file with all three kinds of packet, long enough for a sample to leave
\* the buffer before the end, has been iterated to StopIteration.
C1_Witness ==
    /\ Completed
    /\ SyncIn(Read) # {} /\ UartIn(Read) # {}
    /\ Len(out) >= BUFFER_LENGTH

-----------------------------------------------------------------------------
(* C2 *)

\* The stamps of the DATA and SYNC packets read increase strictly.
StrictStamps ==
    \A i, j \in DataIn(Read) \cup SyncIn(Read) :
        i < j => file[i].t < file[j].t

\* The records the stream knows: preinfo or the sentinel, the records
\* completed in the file, an explicitly supplied postinfo.
Known ==
    {sync_info[i] : i \in 1..Len(sync_info)}
      \cup (IF postinfo.mode = "given" THEN {postinfo.rec} ELSE {})

\* Sample s carries the id and offset of the latest known record before it.
Preceded(s) ==
    LET cands == {r \in Known : r[1] < s[1]}
    IN  \E r \in cands :
          /\ \A r2 \in cands : r2[1] <= r[1]
          /\ s[3] = r[2] /\ s[4] = r[3]

\* C2: in a completed stream over a file with strictly increasing stamps
\* every returned sample carries the id and offset of the known record with
\* the greatest stamp below the sample's stamp (the sentinel when there is
\* none).
C2_LatestRecord ==
    (Completed /\ StrictStamps) => \A n \in 1..Len(out) : Preceded(out[n])

-----------------------------------------------------------------------------
(* C3 *)

\* The file read is n DATA, SYNC i, the six UARTs [0x55, b1..b5], m DATA.
Scenario1(i) ==
    /\ IsSync(i)
    /\ \A j \in 1..(i - 1) : IsData(j)
    /\ i + 6 < fd_pos
    /\ \A j \in (i + 1)..(i + 6) : IsUart(j)
    /\ file[i + 1].d = UART_HEADER
    /\ \A j \in (i + 7)..fd_pos : IsData(j)

\* C3: without preinfo and postinfo, of a file of n DATA, a SYNC with its
\* six UARTs and m DATA, the first n samples are returned with sync_id -1
\* and the m that follow with the id the five body bytes spell and the
\* payload of the SYNC as offset.
C3_CleanFile ==
    (Completed /\ preinfo.mode = "none" /\ postinfo.mode = "none") =>
        \A i \in Read : Scenario1(i) =>
            /\ \A n \in 1..(i - 1) : out[n][3] = IdOf(-1)
            /\ \A n \in i..Len(out) :
                  /\ out[n][3] = Packed(BodyAfter(i))
                  /\ out[n][4] = file[i].d

-----------------------------------------------------------------------------
(* C4 *)

\* SYNC i meets the idle machine and six UARTs follow it, the first of them
\* 0x55, with no other SYNC up to the sixth.
ValidSeq(i) ==
    /\ IsSync(i)
    /\ CountBefore(i) = 6
    /\ SixAfter(i)
    /\ file[UartAfter(i, 1)].d = UART_HEADER

Sixth(i) == UartAfter(i, 6)

RecordOf(i) == << file[i].t, Packed(BodyAfter(i)), file[i].d >>

\* One record, the record of SYNC i, is published at packet j and none
\* before, and DATA packets read while it is the last record are buffered
\* with its id and offset.
PublishedAt(i, j) ==
    /\ \A q \in i..(j - 1) : hist[q].ninfo = InfoBefore(i)
    /\ hist[j].ninfo = InfoBefore(i) + 1
    /\ hist[j].last = RecordOf(i)
    /\ hist[j].err = ""
    /\ \A q \in DataIn(Read) :
          (q > j /\ hist[q].ninfo = hist[j].ninfo) =>
              /\ hist[q].tag[3] = RecordOf(i)[2]
              /\ hist[q].tag[4] = RecordOf(i)[3]

\* The iteration fails at packet j with 'Buffer too short', nothing
\* published.
FailsAt(i, j) ==
    /\ hist[j].err = "Buffer too short"
    /\ \A q \in i..j : hist[q].ninfo = InfoBefore(i)

\* C4 as stated: a SYNC that meets the idle machine and its six UARTs, the
\* first 0x55, publish exactly one record, at the sixth UART, equal to
\* (stamp, b1 + b2*2^8 + b3*2^16 + b4*2^24 + b5*2^32, payload), and the DATA
\* packets read after it are buffered with it.
C4_Original ==
    \A i \in Read : ValidSeq(i) => PublishedAt(i, Sixth(i))

\* C4 as amended: the same, unless the application of the record to the
\* buffer fails with 'Buffer too short' at the sixth UART; then nothing is
\* published.
C4_Publication ==
    \A i \in Read :
        ValidSeq(i) => (PublishedAt(i, Sixth(i)) \/ FailsAt(i, Sixth(i)))

\* A sequence with a DATA packet inside it has published its record and a
\* DATA packet after it has been buffered.
C4_Witness ==
    \E i \in Read :
        /\ ValidSeq(i) /\ PublishedAt(i, Sixth(i))
        /\ DataIn(i..Sixth(i)) # {}
        /\ \E q \in DataIn(Read) : q > Sixth(i)

-----------------------------------------------------------------------------
(* C7 *)

\* SYNC i arms the machine and the first UART after it is not 0x55.
First(i) == UartAfter(i, 1)

BadHeader(i) ==
    /\ IsSync(i)
    /\ hist[i].count = 0
    /\ First(i) # 0
    /\ SyncIn((i + 1)..First(i)) = {}
    /\ file[First(i)].d # UART_HEADER

\* C7: after a SYNC whose first UART is not 0x55 the machine sets skip and
\* publishes nothing for that SYNC however many UARTs follow, and every
\* DATA packet read after it is returned, as long as no later sequence has
\* completed, with the id and offset of the last record completed before
\* that SYNC (or the sentinel).
C7_BadHeader ==
    \A i \in Read : BadHeader(i) =>
        /\ hist[First(i)].skip
        /\ \A q \in Read :
              (q >= First(i) /\ SyncIn((i + 1)..q) = {}) =>
                  hist[q].ninfo = InfoBefore(i)
        /\ \A q \in DataIn(Read) :
              (q > First(i) /\ Len(sync_info) = InfoBefore(i) /\ Ord(q) <= Len(out))
                  => /\ out[Ord(q)][3] = LastBefore(i)[2]
                     /\ out[Ord(q)][4] = LastBefore(i)[3]

-----------------------------------------------------------------------------
(* C5 *)

\* The last SYNC of the previous file, 0 if it has none.
LastSync(f) ==
    LET ss == {i \in 1..Len(f) : f[i].k = "SYNC"}
    IN  IF ss = {} THEN 0 ELSE CHOOSE i \in ss : \A j \in ss : j <= i

\* The previous file ends with a SYNC and k UARTs, the first of them 0x55,
\* and the file read begins with 6 - k UARTs and a DATA packet.
SplitSeq(k) ==
    LET s == LastSync(prev) IN
    /\ preinfo.mode = "auto" /\ postinfo.mode = "auto"
    /\ s # 0 /\ Len(prev) = s + k
    /\ \A j \in (s + 1)..Len(prev) : prev[j].k = "UART"
    /\ prev[s + 1].d = UART_HEADER
    /\ fd_pos > 6 - k
    /\ \A j \in 1..(6 - k) : IsUart(j)
    /\ IsData(7 - k)

\* The five body bytes of the split sequence: UARTs 2..k of the previous
\* file's tail, then the UARTs at the head of the file read.
SplitBody(k) ==
    [n \in 1..5 |-> IF n + 1 <= k THEN prev[LastSync(prev) + n + 1].d
                    ELSE file[n + 1 - k].d]

\* C5: when the previous file ends with a SYNC and k UARTs (0 < k < 6, the
\* first 0x55) and the file begins with the remaining 6 - k UARTs followed
\* by DATA, the file read with preinfo and postinfo automatic has its DATA
\* packets after the fragment, up to the next SYNC, buffered and returned
\* with the id packed from the five body bytes of both halves and with the
\* payload of the SYNC of the previous file as offset.
C5_Fragment ==
    \A k \in 1..5 : SplitSeq(k) =>
        \A q \in DataIn(Read) :
            (q > 6 - k /\ SyncIn(1..q) = {}) =>
                /\ hist[q].tag[3] = Packed(SplitBody(k))
                /\ hist[q].tag[4] = prev[LastSync(prev)].d
                /\ Ord(q) <= Len(out) =>
                      /\ out[Ord(q)][3] = Packed(SplitBody(k))
                      /\ out[Ord(q)][4] = prev[LastSync(prev)].d

\* A file that begins with the rest of a split sequence has been iterated
\* to StopIteration and has returned a DATA packet read after the fragment.
C5_Witness ==
    /\ Completed
    /\ \E k \in 1..5 : SplitSeq(k) /\ Len(out) >= 2

-----------------------------------------------------------------------------
(* C6 *)

\* The first part ends with a SYNC and k UARTs, and the second part begins
\* with exactly 6 - k UARTs.
SplitAt(k) ==
    LET s == Len(prev) - k IN
    /\ s >= 1 /\ prev[s].k = "SYNC"
    /\ \A j \in (s + 1)..Len(prev) : prev[j].k = "UART"
    /\ Len(nxt) >= 6 - k
    /\ \A j \in 1..(6 - k) : nxt[j].k = "UART"
    /\ Len(nxt) > 6 - k => nxt[7 - k].k # "UART"

\* The machine of a stream without preinfo before its first packet.
Idle ==
    LET c == construct(NoInfo)
    IN  [buffer |-> << >>, sync_info |-> c.sync_info,
         sync_count |-> c.sync_count, skip |-> FALSE,
         sync_stamp |-> c.sync_stamp, sync_id |-> c.sync_id,
         sync_offset |-> c.sync_offset, err |-> ""]

\* The machine after the SYNC and UART packets ps.
RECURSIVE Feed(_, _)
Feed(m, ps) ==
    IF ps = << >> THEN m
    ELSE Feed(IF Head(ps).k = "SYNC" THEN sync_push_sync(m, Head(ps))
              ELSE sync_push_uart(m, Head(ps), << >>, << >>),
              Tail(ps))

\* The in-stream machine over the sequence read from one file.
Unsplit(k) ==
    Feed(Idle, SubSeq(prev \o nxt, Len(prev) - k, Len(prev) - k + 6))

\* C6: for a SYNC and six UARTs split after k UARTs (k in 0..5),
\* get_last_sync(accept_residue=True) on the first file and defrag on the
\* second return the id that the in-stream machine publishes for the
\* unsplit sequence, and -1 (no id) where it publishes none.
C6_Defrag ==
    ret.op = "defrag" =>
        \A k \in 0..5 : SplitAt(k) =>
            LET m == Unsplit(k) IN
            /\ ret.res.err = ""
            /\ ret.res.id = IF Len(m.sync_info) = 2
                            THEN m.sync_info[2][2] ELSE IdOf(-1)

-----------------------------------------------------------------------------
(* C8 *)

\* The packets of the catalog in the order they were written.
Catalog == prev \o SubSeq(file, 1, fd_pos) \o nxt

\* The payload o is the payload of a SYNC of the catalog whose first UART
\* is 0x55.
HeaderOk(o) ==
    \E i \in 1..Len(Catalog) :
        /\ Catalog[i].k = "SYNC" /\ Catalog[i].d = o
        /\ \E j \in (i + 1)..Len(Catalog) :
              /\ Catalog[j].k = "UART" /\ Catalog[j].d = UART_HEADER
              /\ \A q \in (i + 1)..(j - 1) : Catalog[q].k = "DATA"

\* C8: every record whose id annotates a sample, when the sample is
\* buffered or when it is returned, comes from a SYNC whose first UART is
\* 0x55, in the file read or in a neighbour.
C8_Header ==
    /\ \A q \in DataIn(Read) :
          hist[q].tag[3] = IdOf(-1) \/ HeaderOk(hist[q].tag[4])
    /\ \A n \in 1..Len(out) :
          out[n][3] = IdOf(-1) \/ HeaderOk(out[n][4])

-----------------------------------------------------------------------------
(* C9 *)

\* The UART packets of f that follow SYNC i before the next SYNC.
UartsOf(f, i) ==
    {j \in (i + 1)..Len(f) :
        f[j].k = "UART" /\ \A q \in (i + 1)..j : f[q].k # "SYNC"}

Nth(S, n) == CHOOSE j \in S : Cardinality({q \in S : q < j}) = n - 1

\* The record of SYNC i of f from the UARTs that follow it: a missing body
\* byte counts 0.
RecordIn(f, i) ==
    LET us == UartsOf(f, i)
    IN  << f[i].t,
           Packed([n \in 1..5 |-> IF n + 1 <= Cardinality(us)
                                  THEN f[Nth(us, n + 1)].d ELSE 0]),
           f[i].d >>

Full(f, i) == f[i].k = "SYNC" /\ Cardinality(UartsOf(f, i)) = 6

\* No SYNC of f is followed by more than six UARTs.
NoLongRun(f) ==
    \A i \in 1..Len(f) :
        f[i].k = "SYNC" => Cardinality(UartsOf(f, i)) <= 6

\* C9: on a file without a run of more than six UARTs,
\* get_last_sync(accept_residue=False) returns the record of the last SYNC
\* that is followed by six UARTs, and get_last_sync(accept_residue=True) on
\* a file whose last SYNC is followed by k UARTs, 0 < k < 6, returns the
\* partial record of that SYNC and k.
C9_LastSync ==
    (ret.op = "get_last_sync" /\ NoLongRun(prev)) =>
        LET fulls == {i \in 1..Len(prev) : Full(prev, i)}
            s == LastSync(prev)
            k == Cardinality(UartsOf(prev, s))
        IN
        /\ (~ret.acc /\ fulls # {}) =>
              /\ ret.res.err = ""
              /\ ret.res.rec =
                    RecordIn(prev, CHOOSE i \in fulls :
                                      \A j \in fulls : j <= i)
        /\ (ret.acc /\ s # 0 /\ 0 < k /\ k < 6) =>
              ret.res = Returned(RecordIn(prev, s), k)

-----------------------------------------------------------------------------
(* C10 *)

\* C10: on a file without a run of more than six UARTs, get_first_sync
\* returns the record of the first SYNC at or after seek_from that is
\* followed by six UARTs, with count 0, and returns no record when there is
\* no such SYNC.
C10_FirstSync ==
    (ret.op = "get_first_sync" /\ NoLongRun(nxt)
       /\ ret.res.err # "UART too long") =>
        LET fulls == {i \in (ret.from + 1)..Len(nxt) : Full(nxt, i)}
        IN  IF fulls = {} THEN ret.res.err # ""
            ELSE ret.res = Returned(RecordIn(nxt, CHOOSE i \in fulls :
                                                 \A j \in fulls : i <= j),
                                    0)


-----------------------------------------------------------------------------
(* The latest zenith (src/cur_tail.py) *)

\* The most files a catalog holds.
MaxFiles == 2

\* The shapes of the files of a catalog: "M" is a packet whose header or
\* footer bytes are wrong, which parsebytes refuses.
ZenithShapes ==
    { << >>, << "D" >>, << "D", "D" >>, << "S", "B" >>, << "D", "S", "X" >>,
      << "D", "M" >>, << "M", "D" >>, << "M" >> }

\* The catalogs: file i is numbered i, so that the payloads of different
\* files are different.
Catalogs ==
    UNION { { [i \in 1..n |-> Numbered(BuildFile(sh[i], << >>, 0, 1, 0), i)] :
              sh \in [1..n -> ZenithShapes] } : n \in 0..MaxFiles }

\* PathCatalog.latest: the index of the largest file name, or 0 when the
\* catalog is empty (the call fails).
get_latest_path(cat) == Len(cat)

\* PathCatalog.previous: the index of the file immediately before file i, or
\* 0 when there is none (the call fails).
get_previous_path(cat, i) == i - 1

\* The zenith angle of an encoder value, as the fraction num/den.
enc2z(enc_val) == [num |-> enc_val - 7062, den |-> 900]

Zenith(z) == [err |-> "", val |-> z]
NoZenith(e) == [err |-> e, val |-> enc2z(0)]

\* The scan that looks at the last packet only.
tail_data_last(f, i) ==
    IF i = 0 THEN NoZenith("none")
    ELSE IF f[i].k = "BAD" THEN NoZenith("HEADER ERROR")
    ELSE IF f[i].k = "DATA" THEN Zenith(enc2z(f[i].d))
    ELSE NoZenith("none")

\* The loop of get_latest_zenith over one file: get_data from the last
\* packet down to the first; the first DATA met is the answer, a malformed
\* packet met before it raises, and "none" is the loop running out.
RECURSIVE tail_data(_, _)
tail_data(f, i) ==
    IF i = 0 THEN NoZenith("none")
    ELSE IF f[i].k = "BAD" THEN NoZenith("HEADER ERROR")
    ELSE IF f[i].k = "DATA" THEN Zenith(enc2z(f[i].d))
    ELSE tail_data(f, i - 1)

\* get_latest_zenith: the latest file inside try/except Exception, then the
\* previous file with no handler, then RuntimeError.
get_latest_zenith(cat) ==
    LET latest_path == get_latest_path(cat)
    IN  IF latest_path = 0 THEN NoZenith("no latest")
        ELSE LET first == tail_data(cat[latest_path], Len(cat[latest_path]))
                 second_path == get_previous_path(cat, latest_path)
             IN  IF first.err = "" THEN first
                 ELSE IF second_path = 0 THEN NoZenith("no previous")
                 ELSE LET second == tail_data(cat[second_path],
                                              Len(cat[second_path]))
                      IN  IF second.err = "none"
                          THEN NoZenith("Caonnt find the latest.")
                          ELSE second

\* The stream is not in use.
StreamIdle ==
    /\ StreamInit(NoInfo, NoInfo, << 1, 0 >>)
    /\ status = "iter" /\ err = "" /\ tick = 0
    /\ prev = << >> /\ nxt = << >> /\ ret = NoCall

InitZenith ==
    /\ StreamIdle
    /\ catalog \in Catalogs
    /\ SamplerIdle
    /\ ServerIdle
    /\ NamesIdle
    /\ UioIdle

CallZenith ==
    /\ ret = NoCall
    /\ ret' = [op |-> "get_latest_zenith", res |-> get_latest_zenith(catalog)]
    /\ UNCHANGED << Stream, prev, nxt, Others >>

NextZenith == CallZenith

SpecZenith == InitZenith /\ [][NextZenith]_vars

\* The DATA packet with the highest index in file f, 0 when f has none.
LastData(f) ==
    LET ds == {i \in 1..Len(f) : f[i].k = "DATA"}
    IN  IF ds = {} THEN 0 ELSE CHOOSE i \in ds : \A j \in ds : j <= i

\* File f has a DATA packet and no malformed packet after the last one: the
\* read of its last DATA succeeds.
Readable(f) ==
    /\ LastData(f) > 0
    /\ \A i \in LastData(f)..Len(f) : f[i].k # "BAD"

Mapped(f) == [num |-> f[LastData(f)].d - 7062, den |-> 900]

\* C11: get_latest_zenith returns (x - 7062)/900 for the payload x of the
\* last DATA packet of the latest file; when the latest file has no DATA
\* packet or reading it fails, it returns the same mapping of the last DATA
\* packet of the file immediately before the latest one.
C11_LatestZenith ==
    (ret.op = "get_latest_zenith" /\ Len(catalog) > 0) =>
        LET latest == catalog[Len(catalog)]
        IN  IF Readable(latest)
            THEN ret.res = [err |-> "", val |-> Mapped(latest)]
            ELSE (Len(catalog) > 1 /\ Readable(catalog[Len(catalog) - 1])) =>
                     ret.res = [err |-> "",
                                val |-> Mapped(catalog[Len(catalog) - 1])]

\* The latest file holds only SYNC and UART packets and the answer is the
\* last DATA of the file before it, which has a DATA packet before that one.
C11_Witness ==
    /\ ret.op = "get_latest_zenith"
    /\ Len(catalog) = 2
    /\ Len(catalog[2]) > 0
    /\ LastData(catalog[2]) = 0
    /\ LastData(catalog[1]) = 2
    /\ ret.res = [err |-> "", val |-> Mapped(catalog[1])]


-----------------------------------------------------------------------------
(* The TCP sampler (src/elread.py) *)

\* The packets get_write relays into one file, and the most bytes one recv
\* asks for (1000000 and 128*12 in the code).
FILE_LEN == 1
RECV_BUFLEN == 8

\* The most files one sampler completes.
MaxWrites == 2

\* What a step of a sampler leaves alone.
NotSampler == << Stream, prev, nxt, ret, catalog, Server, listing, Uio >>

\* Whether the directory of the lock file can be written to.
is_writable == BOOLEAN

\* __init__, `if lockpath.exists(): raise RuntimeError('Locked: ...')`: the
\* failed instance is dropped with _locked False, so __del__ removes nothing.
InitExists(p) ==
    /\ spc[p] = "new"
    /\ spc' = [spc EXCEPT ![p] = IF lock # 0 THEN "Locked" ELSE "checked"]
    /\ UNCHANGED << NotSampler, lock, locked, connected, rest, upstream, eof, nfile, sock >>

\* __init__, `if not is_writable(lockpath.parent): raise RuntimeError(...)`.
InitWritable(p) ==
    /\ spc[p] = "checked"
    /\ \E w \in is_writable :
           spc' = [spc EXCEPT ![p] = IF w THEN "writable" ELSE "No write access"]
    /\ UNCHANGED << NotSampler, lock, locked, connected, rest, upstream, eof, nfile, sock >>

\* __init__, open(lockpath, 'w'), the write of the pid, _locked = True.
InitOpen(p) ==
    /\ spc[p] = "writable"
    /\ lock' = p
    /\ locked' = [locked EXCEPT ![p] = TRUE]
    /\ spc' = [spc EXCEPT ![p] = "ready"]
    /\ UNCHANGED << NotSampler, connected, rest, upstream, eof, nfile, sock >>

\* _connect: the socket is connected unless the flag says it is already.
connect(p) == IF connected[p] THEN sock[p] ELSE "open"

\* _close: the socket is closed if the flag says it is connected; the flag
\* is left as it is.
close(p, sk) == IF connected[p] THEN "closed" ELSE sk

\* main calls loop: _connect, then get_write over and over.
Loop(p) ==
    /\ spc[p] = "ready"
    /\ connected' = [connected EXCEPT ![p] = TRUE]
    /\ sock' = [sock EXCEPT ![p] = connect(p)]
    /\ spc' = [spc EXCEPT ![p] = "loop"]
    /\ UNCHANGED << NotSampler, lock, locked, rest, upstream, eof, nfile >>

\* get_write up to the body loop: rest = 12*data_num and the header.
GetWrite(p) ==
    /\ spc[p] = "loop"
    /\ nfile[p] < MaxWrites
    /\ connected[p]
    /\ rest' = [rest EXCEPT ![p] = PACKET_LENGTH * FILE_LEN]
    /\ eof' = [eof EXCEPT ![p] = FALSE]
    /\ spc' = [spc EXCEPT ![p] = "recv"]
    /\ UNCHANGED << NotSampler, lock, locked, connected, upstream, nfile, sock >>

recv_num(p) == IF rest[p] > RECV_BUFLEN THEN RECV_BUFLEN ELSE rest[p]

\* One turn of `while rest > 0` with the device connected: recv blocks until
\* it has 1..recv_num bytes.
Recv(p) ==
    /\ spc[p] = "recv"
    /\ sock[p] = "open"
    /\ upstream[p] = "open"
    /\ \E n \in 1..recv_num(p) :
         /\ rest' = [rest EXCEPT ![p] = @ - n]
         /\ spc' = [spc EXCEPT ![p] = IF rest[p] - n > 0 THEN "recv" ELSE "loop"]
         /\ nfile' = [nfile EXCEPT ![p] = IF rest[p] - n > 0 THEN @ ELSE @ + 1]
    /\ UNCHANGED << NotSampler, lock, locked, connected, upstream, eof, sock >>

\* One turn of `while rest > 0` after the device closed: recv returns b'' at
\* once, nothing is written, rest = rest - 0.
RecvClosed(p) ==
    /\ spc[p] = "recv"
    /\ sock[p] = "open"
    /\ upstream[p] = "closed"
    /\ eof' = [eof EXCEPT ![p] = TRUE]
    /\ rest' = [rest EXCEPT ![p] = @ - 0]
    /\ spc' = [spc EXCEPT ![p] = IF rest[p] - 0 > 0 THEN "recv" ELSE "loop"]
    /\ UNCHANGED << NotSampler, lock, locked, connected, upstream, nfile, sock >>

\* One turn of `while rest > 0` on a socket that has been closed: recv
\* raises OSError (bad file descriptor), which loop does not catch.
RecvBad(p) ==
    /\ spc[p] = "recv"
    /\ sock[p] = "closed"
    /\ spc' = [spc EXCEPT ![p] = "OSError"]
    /\ UNCHANGED << NotSampler, lock, locked, connected, rest, upstream, eof,
                    nfile, sock >>

\* The device closes its end of the connection.
UpstreamClose(p) ==
    /\ sock[p] = "open"
    /\ upstream[p] = "open"
    /\ upstream' = [upstream EXCEPT ![p] = "closed"]
    /\ UNCHANGED << NotSampler, lock, spc, locked, connected, rest, eof, nfile, sock >>

\* KeyboardInterrupt in loop: _close, and the process ends.
Interrupt(p) ==
    /\ spc[p] \in {"loop", "recv"}
    /\ spc' = [spc EXCEPT ![p] = "exit"]
    /\ sock' = [sock EXCEPT ![p] = close(p, sock[p])]
    /\ UNCHANGED << NotSampler, lock, locked, connected, rest, upstream, eof,
                    nfile >>

\* z_enable or z_disable called on the instance before loop: _connect
\* unless the flag is set, _tcp_write of the command (sendall raises
\* OSError on a socket that has been closed), and _close if the flag was
\* not set at the start.
Command(p) ==
    /\ spc[p] = "ready"
    /\ \E cmd \in {"e#reset_enable", "e#reset_disable"} :
         IF connect(p) = "closed"
         THEN /\ spc' = [spc EXCEPT ![p] = "OSError"]
              /\ UNCHANGED << connected, sock >>
         ELSE /\ connected' = [connected EXCEPT ![p] = TRUE]
              /\ sock' = [sock EXCEPT ![p] =
                            IF connected[p] THEN connect(p) ELSE "closed"]
              /\ spc' = spc
    /\ UNCHANGED << NotSampler, lock, locked, rest, upstream, eof, nfile >>

\* __del__: `if self._locked: self._lockpath.unlink()`, which raises when the
\* file is gone already.
Del(p) ==
    /\ spc[p] \in {"exit", "OSError"}
    /\ IF locked[p] /\ lock # 0
       THEN lock' = 0 /\ spc' = [spc EXCEPT ![p] = "gone"]
       ELSE lock' = lock
            /\ spc' = [spc EXCEPT ![p] = IF locked[p] THEN "FileNotFoundError"
                                         ELSE "gone"]
    /\ UNCHANGED << NotSampler, locked, connected, rest, upstream, eof, nfile, sock >>

InitSampler ==
    /\ StreamIdle
    /\ DiskIdle
    /\ SamplerIdle
    /\ ServerIdle
    /\ NamesIdle
    /\ UioIdle

NextSampler ==
    \E p \in Procs :
        \/ InitExists(p)
        \/ InitWritable(p)
        \/ InitOpen(p)
        \/ Loop(p)
        \/ GetWrite(p)
        \/ Recv(p)
        \/ RecvClosed(p)
        \/ RecvBad(p)
        \/ UpstreamClose(p)
        \/ Interrupt(p)
        \/ Command(p)
        \/ Del(p)

SpecSampler == InitSampler /\ [][NextSampler]_vars

\* C12: of two samplers constructed at the same time on one lock path, one
\* gets the lock and the other fails with 'Locked': at no time do two
\* instances both hold the lock.
C12_Lock ==
    /\ Cardinality({p \in Procs : locked[p]}) <= 1
    /\ \A p \in Procs : spc[p] \in {"loop", "recv"} =>
           \A q \in Procs \ {p} : spc[q] \notin {"loop", "recv"}


\* C29: the connected flag of a sampler is true exactly when its socket is
\* open: after z_enable or z_disable on a disconnected sampler the sampler
\* is disconnected again, so that loop connects before get_write receives,
\* and no sampler reads from or writes to a closed socket.
C29_Connected ==
    \A p \in Procs :
        /\ connected[p] <=> sock[p] = "open"
        /\ spc[p] = "recv" => sock[p] = "open"
        /\ spc[p] # "OSError"

\* C19: when the device closes the connection before get_write has relayed
\* 12*data_num bytes, a recv that returns zero bytes ends the relay loop with
\* a transport error: get_write does not go round the loop again.
C19_UpstreamClosed ==
    \A p \in Procs : (eof[p] /\ rest[p] > 0) => spc[p] # "recv"


-----------------------------------------------------------------------------
(* The zenith server and its client (src/el_server.py, src/el_client.py) *)

\* The most requests one client sends.
MaxRequests == 2

\* What a step of the server or of a client leaves alone.
NotServer == << Stream, prev, nxt, ret, catalog, Sampler, listing, Uio >>

\* The file trees the server is run on: the latest file ends with a DATA
\* packet, only the file before it has one, none has one.
ServedShapes ==
    { << << "D" >>, << "D", "D" >> >>,
      << << "D", "S", "X" >>, << "S", "B" >> >>,
      << << "S" >>, << >> >> }

ServedCatalogs ==
    { [i \in 1..2 |-> Numbered(BuildFile(sh[i], << >>, 0, 1, 0), i)] :
      sh \in ServedShapes }

\* '{:.3f}'.format(z): z in thousandths, rounded to the nearest (num/900 in
\* thousandths is a multiple of 1/9, never half way).
format3(z) == (2 * 1000 * z.num + z.den) \div (2 * z.den)

\* ElClient.__init__: connect, which the listening socket queues.
Connect(c) ==
    /\ cpc[c] = "new"
    /\ srv # "dead"
    /\ backlog' = Append(backlog, c)
    /\ cpc' = [cpc EXCEPT ![c] = "idle"]
    /\ UNCHANGED << NotServer, srv, conn, inbox, outbox, sent, got >>

\* get_zenith, send('e#zenith?').
Send(c) ==
    /\ cpc[c] = "idle"
    /\ sent[c] < MaxRequests
    /\ inbox' = [inbox EXCEPT ![c] = Append(@, "e#zenith?")]
    /\ sent' = [sent EXCEPT ![c] = @ + 1]
    /\ cpc' = [cpc EXCEPT ![c] = "wait"]
    /\ UNCHANGED << NotServer, srv, conn, backlog, outbox, got >>

\* get_zenith, recv(4096) and float(res): the response, or b'' when the
\* server's end is closed, which float refuses.
GetZenith(c) ==
    /\ cpc[c] = "wait"
    /\ IF outbox[c] # << >>
       THEN /\ got' = [got EXCEPT ![c] = Append(@, Head(outbox[c]))]
            /\ outbox' = [outbox EXCEPT ![c] = Tail(@)]
            /\ cpc' = [cpc EXCEPT ![c] = "idle"]
       ELSE /\ srv = "dead"
            /\ cpc' = [cpc EXCEPT ![c] = "ValueError"]
            /\ UNCHANGED << outbox, got >>
    /\ UNCHANGED << NotServer, srv, conn, backlog, inbox, sent >>

\* The client's process ends and its socket closes.
Close(c) ==
    /\ cpc[c] = "idle"
    /\ cpc' = [cpc EXCEPT ![c] = "closed"]
    /\ UNCHANGED << NotServer, srv, conn, backlog, inbox, outbox, sent, got >>

\* run, `clientsock, _ = self._sock.accept()`.
Accept ==
    /\ srv = "accept"
    /\ backlog # << >>
    /\ conn' = Head(backlog)
    /\ backlog' = Tail(backlog)
    /\ srv' = "recv"
    /\ UNCHANGED << NotServer, inbox, outbox, cpc, sent, got >>

\* run, one turn of the inner loop on a request: recv(1024), strip, compare,
\* get_latest_zenith, whose exception nothing in run handles, and sendall.
Serve ==
    /\ srv = "recv"
    /\ inbox[conn] # << >>
    /\ inbox' = [inbox EXCEPT ![conn] = Tail(@)]
    /\ LET z == get_latest_zenith(catalog)
       IN  IF Head(inbox[conn]) # "e#zenith?"
           THEN UNCHANGED << srv, conn, outbox >>
           ELSE IF z.err # ""
           THEN srv' = "dead" /\ conn' = 0 /\ UNCHANGED outbox
           ELSE /\ outbox' = [outbox EXCEPT ![conn] = Append(@, format3(z.val))]
                /\ UNCHANGED << srv, conn >>
    /\ UNCHANGED << NotServer, backlog, cpc, sent, got >>

\* run, recv(1024) returns b'' when the client has closed: break, close.
Hangup ==
    /\ srv = "recv"
    /\ inbox[conn] = << >>
    /\ cpc[conn] = "closed"
    /\ conn' = 0
    /\ srv' = "accept"
    /\ UNCHANGED << NotServer, backlog, inbox, outbox, cpc, sent, got >>

InitServer ==
    /\ StreamIdle
    /\ SamplerIdle
    /\ ServerIdle
    /\ catalog \in ServedCatalogs
    /\ NamesIdle
    /\ UioIdle

NextServer ==
    \/ Accept
    \/ Serve
    \/ Hangup
    \/ \E c \in Clients : Connect(c) \/ Send(c) \/ GetZenith(c) \/ Close(c)

\* The server runs when it can and a client in get_zenith takes the bytes
\* that arrive; nothing makes a client connect, send or leave.
SpecServer ==
    /\ InitServer
    /\ [][NextServer]_vars
    /\ WF_vars(Accept) /\ WF_vars(Serve) /\ WF_vars(Hangup)
    /\ \A c \in Clients : WF_vars(GetZenith(c))

\* What the server answers on this file tree.
Answer == format3(get_latest_zenith(catalog).val)

\* C13: on a connection, every request 'e#zenith?' of the client gets one
\* response in the end, the latest zenith with three fractional digits,
\* however many requests follow one another; and when the client closes,
\* the server closes the connection and goes on to accept the next client.
C13_Serve ==
    /\ [](\A c \in Clients :
            /\ Len(got[c]) + Len(outbox[c]) <= sent[c]
            /\ \A i \in 1..Len(got[c]) : got[c][i] = Answer)
    /\ \A c \in Clients : \A n \in 1..MaxRequests :
           (conn = c /\ sent[c] = n) ~> (Len(got[c]) = n)
    /\ \A c \in Clients :
           (conn = c /\ cpc[c] = "closed") ~> (conn # c /\ srv = "accept")

\* C14: the server does not stay blocked on a client that is connected and
\* sends nothing: a second client that connects and sends 'e#zenith?' gets
\* its response in the end (as long as the server has not died of a lookup
\* that failed).
C14_SlowClient ==
    \A c \in Clients :
        (cpc[c] = "wait") ~> (cpc[c] # "wait" \/ srv = "dead")


-----------------------------------------------------------------------------
(* The file that covers a time (src/utils.py, dt2elpath) *)

\* The days of the file tree and the times of a day.
MaxDays == 2
MaxSec == 2

\* A file name is << day, time >>: EL_FMT puts the day in the directory and
\* the time in the name, so the order of the paths is the order of the pairs.
Names == (1..MaxDays) \X (0..MaxSec)

Before(a, b) == a[1] < b[1] \/ (a[1] = b[1] /\ a[2] < b[2])

RECURSIVE sorted(_)
sorted(S) ==
    IF S = {} THEN << >>
    ELSE LET m == CHOOSE a \in S : \A b \in S \ {a} : Before(a, b)
         IN  << m >> \o sorted(S \ {m})

\* The file trees: every set of names, listed in order.
Listings == { sorted(S) : S \in SUBSET Names }

\* EL_FMT.format(dt_tgt): the name a file that starts at dt would have.
EL_FMT(dt) == << dt[1], dt[2] >>

\* sorted(pdir.glob('*.xz')): the files of one day's directory.
glob(ls, day) == SelectSeq(ls, LAMBDA a : a[1] = day)

\* np.searchsorted(a, v), side 'left': the number of elements before v.
searchsorted(a, v) == Cardinality({i \in 1..Len(a) : Before(a[i], v)})

\* PathCatalog.previous on names: the name before p in the tree, or the
\* failure "no previous".
previous_name(ls, p) ==
    LET i == CHOOSE k \in 1..Len(ls) : ls[k] = p
    IN  IF i = 1 THEN [err |-> "no previous", path |-> << 0, 0 >>]
        ELSE [err |-> "", path |-> ls[i - 1]]

\* dt2elpath: ppaths[ind] with Python's index from 0, which raises IndexError
\* when ind is len(ppaths).
dt2elpath(ls, dt_tgt) ==
    LET path_fake == EL_FMT(dt_tgt)
        ppaths == glob(ls, path_fake[1])
        ind == searchsorted(ppaths, path_fake)
    IN  IF ind + 1 > Len(ppaths)
        THEN [err |-> "IndexError", path |-> << 0, 0 >>]
        ELSE previous_name(ls, ppaths[ind + 1])

InitLocate ==
    /\ StreamIdle
    /\ DiskIdle
    /\ SamplerIdle
    /\ ServerIdle
    /\ listing \in Listings
    /\ UioIdle

CallLocate ==
    /\ ret = NoCall
    /\ \E dt \in Names :
           ret' = [op |-> "dt2elpath", dt |-> dt, res |-> dt2elpath(listing, dt)]
    /\ UNCHANGED << Stream, prev, nxt, Others >>

NextLocate == CallLocate

SpecLocate == InitLocate /\ [][NextLocate]_vars

\* The files of the tree that start at or before the name v.
NotAfter(v) == {i \in 1..Len(listing) : ~Before(v, listing[i])}

\* C15: for every time dt and every sorted tree that has a file p with
\* p <= format(dt) < next(p), dt2elpath(dt) returns that file: also when dt
\* is the start of a file and when dt is later than the last file of its day.
C15_Locate ==
    (ret.op = "dt2elpath" /\ NotAfter(EL_FMT(ret.dt)) # {}) =>
        /\ ret.res.err = ""
        /\ \E i \in NotAfter(EL_FMT(ret.dt)) :
               /\ ret.res.path = listing[i]
               /\ i < Len(listing) => Before(EL_FMT(ret.dt), listing[i + 1])


-----------------------------------------------------------------------------
(* The span assembler (src/utils.py, elpaths2el) *)

\* The most files of a span.
MaxSpan == 3

\* The files of a span: each starts and ends with a complete sequence, so
\* that the scans of a neighbour's head and tail meet no other packet; "M"
\* is a packet whose header or footer bytes are wrong.
SpanShapes ==
    { << "S", "X", "D", "D", "D", "S", "X" >>,
      << "S", "X", "D", "D", "S", "X" >>,
      << "S", "X", "D", "M", "D", "S", "X" >>,
      << "S", "X", "M", "D", "D", "S", "X" >> }

WellFormed == << "S", "X", "D", "D", "S", "X" >>

\* The files of the shapes shs written one after the other from tick tk on,
\* the first of them numbered n.
RECURSIVE Written(_, _, _)
Written(shs, tk, n) ==
    IF shs = << >> THEN << >>
    ELSE LET f == BuildFile(Head(shs), << >>, tk, 1, 0)
         IN  << Numbered(f, n) >> \o Written(Tail(shs), EndTick(f) + 1, n + 1)

\* The trees: a well-formed file, the files of the span, a well-formed file.
SpanCatalogs ==
    UNION { { Written(<< WellFormed >> \o sh \o << WellFormed >>, 0, 1) :
              sh \in [1..n -> SpanShapes] } : n \in 1..MaxSpan }

\* The element of a set of one element: Only({ e(x) : x \in {v} }) is e(v)
\* with v computed once.
Only(S) == CHOOSE x \in S : TRUE

\* ElData(path, preinfo=True, postinfo=True) on the file after a: the
\* machine after __init__, or the exception of get_last_sync.
open_stream(a) ==
    Only({ Only({ [buffer |-> << >>, sync_info |-> c.sync_info,
                   sync_count |-> c.sync_count, skip |-> FALSE,
                   sync_stamp |-> c.sync_stamp, sync_id |-> c.sync_id,
                   sync_offset |-> c.sync_offset, err |-> r.err] :
                  c \in { construct([mode |-> "auto", rec |-> r.rec,
                                     count |-> IF r.err = "" THEN r.count
                                               ELSE 6]) } }) :
           r \in { get_last_sync(a, 0, SEEK_LENGTH, TRUE) } })

\* __next__ called until StopIteration or an exception on file f with next
\* file c, from packet i on: the rows returned, and the exception. n is
\* the machine after packet i + 1, and e the machine after the end of the
\* file.
RECURSIVE iterate(_, _, _, _, _, _)
iterate(f, c, i, m, sst, rows) ==
    IF i = Len(f)
    THEN Only({ IF e.err # "" THEN [err |-> e.err, rows |-> rows]
                ELSE [err |-> "", rows |-> rows \o e.buffer] :
                e \in { finalize_on(final_auto(m, c), sst, f) } })
    ELSE Only({ IF n.err # "" THEN [err |-> n.err, rows |-> rows]
                ELSE IF Emits(n.buffer)
                THEN iterate(f, c, i + 1, [n EXCEPT !.buffer = Tail(@)],
                             IF f[i + 1].k = "DATA" /\ sst = << >>
                             THEN << f[i + 1].t >> ELSE sst,
                             Append(rows, Head(n.buffer)))
                ELSE iterate(f, c, i + 1, n,
                             IF f[i + 1].k = "DATA" /\ sst = << >>
                             THEN << f[i + 1].t >> ELSE sst,
                             rows) :
                n \in { CASE f[i + 1].k = "DATA" -> push_data(m, f[i + 1])
                          [] f[i + 1].k = "SYNC" ->
                                sync_push_sync(m, f[i + 1])
                          [] f[i + 1].k = "UART" ->
                                sync_push_uart(m, f[i + 1], sst, f)
                          [] OTHER -> [m EXCEPT !.err = "HEADER ERROR"] } })

\* ElData.parse_all of file i of the tree.
parse_all(cat, i) ==
    iterate(cat[i], cat[i + 1], 0, open_stream(cat[i - 1]), << >>, << >>)

\* The files of the span: all but the first and the last of the tree.
Span == 2..(Len(catalog) - 1)

\* elpaths2el, the list of the streams: the constructors run first, and the
\* exception of one of them is the assembler's. Each ElData of eld_list
\* holds its file open (self._fd) as long as the list holds it: readers is
\* the set of the files open.
Assemble ==
    /\ ret = NoCall
    /\ \E errs \in { [i \in Span |-> open_stream(catalog[i - 1]).err] } :
         LET bad == {i \in Span : errs[i] # ""}
         IN  ret' = [op |-> "elpaths2el", cur |-> 2, el_data |-> << >>,
                     err |-> IF bad = {} THEN ""
                             ELSE errs[CHOOSE i \in bad :
                                         \A j \in bad : i <= j],
                     done |-> bad # {},
                     readers |-> IF bad = {} THEN Span ELSE {}]
    /\ UNCHANGED << Stream, prev, nxt, Others >>

\* elpaths2el, one turn of `for eld in eld_list`: parse_all, with no
\* handler, and the rows copied into el_data (tmpd[0][0] and tmpd[:, 0]
\* raise IndexError on a file without rows).
AssembleFile ==
    /\ ret.op = "elpaths2el" /\ ~ret.done
    /\ ret.cur \in Span
    /\ \E tmpd \in { parse_all(catalog, ret.cur) } :
         ret' = IF tmpd.err # ""
                THEN [ret EXCEPT !.err = tmpd.err, !.done = TRUE]
                ELSE IF tmpd.rows = << >>
                THEN [ret EXCEPT !.err = "IndexError", !.done = TRUE]
                ELSE [ret EXCEPT !.el_data = @ \o tmpd.rows,
                                 !.cur = @ + 1]
    /\ UNCHANGED << Stream, prev, nxt, Others >>

\* elpaths2el, `return el_data[:cur]`: eld_list goes with the frame, and
\* __del__ closes the files.
AssembleReturn ==
    /\ ret.op = "elpaths2el" /\ ~ret.done
    /\ ret.cur \notin Span
    /\ ret' = [ret EXCEPT !.done = TRUE, !.readers = {}]
    /\ UNCHANGED << Stream, prev, nxt, Others >>

InitSpan ==
    /\ StreamIdle
    /\ SamplerIdle
    /\ ServerIdle
    /\ NamesIdle
    /\ catalog \in SpanCatalogs
    /\ UioIdle

NextSpan ==
    \/ Assemble
    \/ AssembleFile
    \/ AssembleReturn

SpecSpan == InitSpan /\ [][NextSpan]_vars

\* File i has a packet with a bad header or footer.
Malformed(i) == \E k \in 1..Len(catalog[i]) : catalog[i][k].k = "BAD"

\* The rows of the files lo..hi of the tree that are not malformed.
RECURSIVE RowsOfSound(_, _)
RowsOfSound(lo, hi) ==
    IF lo > hi THEN << >>
    ELSE (IF Malformed(lo) THEN << >> ELSE parse_all(catalog, lo).rows)
         \o RowsOfSound(lo + 1, hi)

\* C16: when a file of the span has a packet with a bad header or footer,
\* the assembler skips that file and still returns the samples of the other
\* files of the span: the malformed file does not abort the assembly.
C16_SkipMalformed ==
    (ret.op = "elpaths2el" /\ ret.done /\ \E i \in Span : Malformed(i)) =>
        /\ ret.err = ""
        /\ ret.el_data = RowsOfSound(2, Len(catalog) - 1)


\* C21: while the assembler combines the files of a span, the number of
\* file readers open at once is bounded by a constant that does not grow
\* with the number of files: it stays below the length of the longest span.
C21_BoundedReaders ==
    ret.op = "elpaths2el" => Cardinality(ret.readers) < MaxSpan


-----------------------------------------------------------------------------
(* C17: 'Buffer too short' *)

\* This step applies a record to a buffer that is not empty: the sixth UART
\* of a sequence that is not skipped, or the end of the file. The record is
\* the one of the machine after the step.
Applied ==
    /\ Len(buffer) > 0
    /\ \/ ~fin /\ fin'
       \/ /\ fd_pos' = fd_pos + 1
          /\ file'[fd_pos'].k = "UART"
          /\ sync_count = 5 /\ ~skip

\* The record is older than the oldest buffered sample.
Older == sync_stamp' < buffer[1][1]

\* The stamp of the first DATA packet of the file.
Earliest == FirstData(file')[1]

\* C17 as stated: the application of a record r fails with 'Buffer too
\* short' exactly when r.sync_stamp is older than the oldest buffered sample
\* and the earliest DATA stamp of the file is newer than r.sync_stamp, and
\* raises no error in every other case.
C17_Original ==
    [][Applied =>
          /\ (err' = "Buffer too short") <=> (Older /\ Earliest > sync_stamp')
          /\ err' \in {"", "Buffer too short"}]_vars

\* C17 as amended: the application of a record r to a buffer that is not
\* empty fails with 'Buffer too short' exactly when r.sync_stamp is older
\* than the oldest buffered sample and the earliest DATA stamp of the file
\* is not newer than r.sync_stamp, and raises no error in every other case.
C17_TooShort ==
    [][Applied =>
          /\ (err' = "Buffer too short") <=> (Older /\ Earliest <= sync_stamp')
          /\ err' \in {"", "Buffer too short"}]_vars

\* A record older than the buffer and not older than the first DATA of the
\* file has failed, at the sixth UART of its sequence.
C17_Witness ==
    /\ err = "Buffer too short"
    /\ Len(buffer) > 0
    /\ sync_stamp < buffer[1][1]
    /\ FirstData(file)[1] <= sync_stamp
    /\ sync_count = 6


-----------------------------------------------------------------------------
(* C18: 'UART too long' *)

\* C18: a run of more than six UARTs after a SYNC is never fatal: neither
\* the iteration of the stream, nor get_first_sync, get_last_sync or defrag,
\* nor the construction of a stream with preinfo = auto over a previous file
\* with such a run, raises 'UART too long'.
C18_UartTooLong ==
    /\ err # "UART too long"
    /\ ret.op # "none" => ret.res.err # "UART too long"


-----------------------------------------------------------------------------
(* The UIO reader (src/el_read_zynq2.py) *)

\* The records the hardware produces in all: after them the hardware FIFO
\* stays empty.
MaxRecords == 2

\* What a step of the reader leaves alone.
NotUio == << Stream, prev, nxt, ret, catalog, Sampler, Server, listing >>

\* The hardware writes a record into its FIFO.
Record ==
    /\ made < MaxRecords
    /\ made' = made + 1
    /\ pl' = pl + 1
    /\ UNCHANGED << NotUio, running, fifo, tpc, mpc >>

\* main, el_enc.run(): _running = True and the thread starts.
Run ==
    /\ mpc = "start"
    /\ running' = TRUE
    /\ tpc' = "while"
    /\ mpc' = "empty"
    /\ UNCHANGED << NotUio, fifo, pl, made >>

\* _loop, `while self._running`.
LoopWhile ==
    /\ tpc = "while"
    /\ tpc' = IF running THEN "fill" ELSE "done"
    /\ UNCHANGED << NotUio, running, fifo, pl, made, mpc >>

\* fill, one turn: _get_info, and break or put(_get_data()).
Fill ==
    /\ tpc = "fill"
    /\ IF pl = 0
       THEN tpc' = "empty" /\ UNCHANGED << fifo, pl >>
       ELSE tpc' = "fill" /\ fifo' = fifo + 1 /\ pl' = pl - 1
    /\ UNCHANGED << NotUio, running, made, mpc >>

\* _loop, `while not self.fifo.empty()`, and sleep(0.1) after the loop.
LoopEmpty ==
    /\ tpc = "empty"
    /\ tpc' = IF fifo = 0 THEN "while" ELSE "get"
    /\ UNCHANGED << NotUio, running, fifo, pl, made, mpc >>

\* _loop, `data = self.fifo.get()`, which blocks while the queue is empty,
\* and send_data_tcp.
LoopGet ==
    /\ tpc = "get"
    /\ fifo > 0
    /\ fifo' = fifo - 1
    /\ tpc' = "empty"
    /\ UNCHANGED << NotUio, running, pl, made, mpc >>

\* main, `while not el_enc.fifo.empty()`, and sleep(0.1) after the loop.
MainEmpty ==
    /\ mpc = "empty"
    /\ mpc' = IF fifo = 0 THEN "empty" ELSE "get"
    /\ UNCHANGED << NotUio, running, fifo, pl, made, tpc >>

\* main, `data = el_enc.fifo.get()`, which blocks while the queue is empty.
MainGet ==
    /\ mpc = "get"
    /\ fifo > 0
    /\ fifo' = fifo - 1
    /\ mpc' = "empty"
    /\ UNCHANGED << NotUio, running, pl, made, tpc >>

\* main, KeyboardInterrupt inside the try, and stop() up to the join.
Stop ==
    /\ mpc \in {"empty", "get"}
    /\ running
    /\ running' = FALSE
    /\ mpc' = "join"
    /\ UNCHANGED << NotUio, fifo, pl, made, tpc >>

\* stop, `self._thread.join()` returns when the thread has ended.
Join ==
    /\ mpc = "join"
    /\ tpc = "done"
    /\ mpc' = "returned"
    /\ UNCHANGED << NotUio, running, fifo, pl, made, tpc >>

InitUio ==
    /\ StreamIdle
    /\ DiskIdle
    /\ SamplerIdle
    /\ ServerIdle
    /\ NamesIdle
    /\ UioIdle

NextUio ==
    \/ Record
    \/ Run
    \/ LoopWhile
    \/ Fill
    \/ LoopEmpty
    \/ LoopGet
    \/ MainEmpty
    \/ MainGet
    \/ Stop
    \/ Join

\* Both threads run when they can; nothing makes the hardware produce a
\* record or the user press the key.
SpecUio ==
    /\ InitUio
    /\ [][NextUio]_vars
    /\ WF_vars(LoopWhile) /\ WF_vars(Fill) /\ WF_vars(LoopEmpty)
    /\ WF_vars(LoopGet)
    /\ WF_vars(MainEmpty) /\ WF_vars(MainGet) /\ WF_vars(Join)

\* C20: after run(), a call of stop() returns in the end, with the producer
\* thread ended, under every interleaving of the two threads that take
\* records from the queue; no thread stays blocked for ever in a get.
C20_Stop ==
    /\ (mpc = "join") ~> (mpc = "returned" /\ tpc = "done")
    /\ (tpc = "get") ~> (tpc # "get")
    /\ (mpc = "get") ~> (mpc # "get")


-----------------------------------------------------------------------------
(* C22: the samples a published record annotates *)

\* This step publishes a record in the stream, at the sixth UART of a
\* sequence, on a buffer that is not empty, and raises nothing.
Published == Applied /\ fin' = fin /\ err' = ""

\* Buffered sample s as record (ss, id, off) must leave it.
Annotated(s, ss, id, off) ==
    IF s[1] > ss THEN Sample(s[1], s[2], id, off) ELSE s

\* C22: when a record is published on a non-empty buffer without error,
\* every buffered sample with a stamp greater than the record's gets the
\* record's id and offset and every other buffered sample is left as it
\* was, whether or not the buffered stamps are consecutive integers.
C22_Annotate ==
    [][Published =>
         /\ Len(buffer') = Len(buffer)
         /\ \A i \in 1..Len(buffer) :
               buffer'[i] = Annotated(buffer[i], sync_stamp', sync_id',
                                      sync_offset')]_vars


-----------------------------------------------------------------------------
(* C23: the end of the file without postinfo *)

\* This step meets the end of the file with postinfo = False and a buffer
\* that is not empty, and raises nothing.
EofNone == ~fin /\ fin' /\ postinfo.mode = "none" /\ err' = ""

\* C23: with postinfo = False the end of the file changes no annotation:
\* the sample the step returns and the samples it leaves in the buffer are
\* the samples that were in the buffer, with the id and offset they had.
C23_EofKeeps ==
    [][EofNone =>
         /\ Len(out') = Len(out) + 1
         /\ << out'[Len(out')] >> \o buffer' = buffer]_vars


-----------------------------------------------------------------------------
(* C24: UARTs at the idle machine *)

\* SYNC i meets the machine idle after one or more UARTs have arrived at
\* the idle machine: the count of UARTs has gone past six.
Stray(i) == IsSync(i) /\ CountBefore(i) > 6

\* C24: a UART that arrives at the idle machine is ignored: after any
\* number of them the next SYNC arms the machine, and when 0x55 and five
\* more UARTs follow it with no other SYNC its record is published at the
\* sixth.
C24_StrayUart ==
    \A i \in Read :
        Stray(i) =>
            /\ hist[i].count = 0
            /\ (SixAfter(i) /\ file[UartAfter(i, 1)].d = UART_HEADER)
                  => PublishedAt(i, Sixth(i))


-----------------------------------------------------------------------------
(* C25: what a published record is made of *)

\* The read of packet j publishes a record.
PublishesAt(j) == hist[j].err = "" /\ hist[j].ninfo = InfoBefore(j) + 1

\* C25: a record is published only at the sixth UART after a SYNC with no
\* other SYNC between the two, and it is the record of that SYNC: its id is
\* spelt by the five body bytes that follow that SYNC, never by bytes that
\* follow two different SYNCs.
C25_OneSync ==
    \A j \in Read :
        PublishesAt(j) =>
            \E i \in SyncIn(1..j) :
                /\ SixAfter(i)
                /\ Sixth(i) = j
                /\ hist[j].last = RecordOf(i)


-----------------------------------------------------------------------------
(* C26: the bounded buffer *)

\* This step returns a sample before the end of the file.
EmitsEarly == ~fin' /\ out' # out

\* C26: before the end of the file a sample is returned only by a call that
\* brings the buffer to BUFFER_LENGTH samples, and the call returns the head
\* of the buffer and no other sample; the buffer never holds more than
\* BUFFER_LENGTH samples, and while fewer than BUFFER_LENGTH DATA packets
\* have been read nothing is returned before the end of the file.
C26_Bounded ==
    /\ [](Len(buffer) <= BUFFER_LENGTH)
    /\ []((~fin /\ Cardinality(DataIn(Read)) < BUFFER_LENGTH)
             => out = << >>)
    /\ [][EmitsEarly =>
            /\ Len(buffer) + 1 = BUFFER_LENGTH
            /\ file'[fd_pos'].k = "DATA"
            /\ out' = Append(out, Head(buffer))
            /\ Len(buffer') = Len(buffer)]_vars

\* A sample has left the full buffer before the end of the file, and SYNC
\* and UART packets have been read as well.
C26_Witness ==
    /\ ~fin /\ status = "iter"
    /\ Len(out) >= 1
    /\ Len(buffer) = BUFFER_LENGTH - 1
    /\ SyncIn(Read) # {} /\ UartIn(Read) # {}


-----------------------------------------------------------------------------
(* C27: a neighbour without a sync sequence *)

\* File f holds no SYNC packet.
NoSync(f) == \A i \in 1..Len(f) : f[i].k # "SYNC"

\* The constructor has raised: nothing has been read.
CtorRaised == status = "raised" /\ fd_pos = 0 /\ ~fin

\* C27: with preinfo = True and postinfo = True the stream opens one
\* neighbour per side, and when the neighbour holds no sync sequence it
\* uses the sentinel record and does not raise: the constructor succeeds
\* with the sentinel as preinfo, and the end of the file is met without an
\* exception, with the sentinel's id and offset as the record.
C27_NoSyncNeighbour ==
    /\ NoSync(prev) => (~CtorRaised /\ preinfo.rec = Sentinel)
    /\ (fin /\ Len(buffer) + Len(out) > 0 /\ NoSync(nxt)) =>
          /\ status # "raised"
          /\ sync_id = IdOf(-1) /\ sync_offset = 0


-----------------------------------------------------------------------------
(* C28: a file without DATA packets *)

\* C28: a file that holds no DATA packet (no packet at all, or SYNC and
\* UART packets only) returns nothing and ends with StopIteration, whatever
\* preinfo and postinfo are: the end of the file with an empty buffer
\* raises no error.
C28_NoData ==
    (fin /\ DataIn(Read) = {}) =>
        /\ status = "stopped"
        /\ err = ""
        /\ out = << >>

============================================================================
